---- MODULE Spec2Model ----
(***************************************************************************)
(* Fitness-tracking backend (main.py): two flat JSON files, users.json and *)
(* workouts.json, read and rewritten wholesale by the request handlers.    *)
(*                                                                         *)
(* Spec      every user-side handler and save_workout, run to completion   *)
(* SpecAuth  register and login over the full identifier samples           *)
(* SpecWo    save_workout and get_history over the workout payloads        *)
(* SpecConc  two writing requests whose load and save steps interleave     *)
(***************************************************************************)
EXTENDS Integers, Sequences, FiniteSets, TLC

VARIABLES dbFile,      \* users.json: [exists, data], data = [users |-> <<...>>]
          woFile,      \* workouts.json: [exists, data], data = <<entry, ...>>
          resp,        \* the last completed request and its response
          lastLevel,   \* history: user_id -> level of its last successful hydrate
          th,          \* SpecConc: per request thread [pc, op, local, status]
          refDb,       \* SpecConc: users.json had the completed requests run alone
          refWo,       \* SpecConc: workouts.json had the completed requests run alone
          overlapped   \* SpecConc: a request loaded while another was between load and save

vars == <<dbFile, woFile, resp, lastLevel, th, refDb, refWo, overlapped>>

----------------------------------------------------------------------------
(* Values *)

\* Python None of an Optional[str] field
NONE == "<None>"

\* `not s` for an Optional[str]
Falsy(s) == s = NONE \/ s = ""

\* strings used as usernames and as emails (a username may look like an email)
Names == {"ann@x", "bob@x"}

Passwords == {"pw1", "pw2"}

\* sampled results of f"user_{uuid.uuid4().hex[:8]}"
UserIds == {"user_0000000a", "user_0000000b"}

\* sampled results of f"wo_{uuid.uuid4().hex[:8]}"
WorkoutIds == {"wo_0000000a", "wo_0000000b"}

\* sampled HydrationUpdate.hydration values (no bounds validation)
Levels == {-1, 3}

\* sampled results of random.randint(2000, 12000)
StepsSamples == {2000, 2019, 7777, 12000}

StepsLow == 2000

StepsHigh == 12000

StepGoal == 10000

CalGoal == 2500

\* sampled datetime.now().isoformat()
NowIso == "2026-01-01T00:00:00"

\* the longest workouts.json the sequential specifications build
MaxWorkouts == 2

DefaultStats ==
  [steps |-> 0, stepGoal |-> StepGoal, calories |-> 0, calGoal |-> CalGoal,
   hydration |-> 0]

new_user(id, username, password, email) ==
  [username |-> username, password |-> password, email |-> email,
   user_id |-> id, stats |-> DefaultStats]

Min(S) == CHOOSE m \in S : \A n \in S : m <= n

NoResp == [op |-> "none", status |-> 0, req |-> [x |-> 0], body |-> [x |-> 0]]

Response(op, status, req, body) ==
  [op |-> op, status |-> status, req |-> req, body |-> body]

HTTPException(op, status, req, detail) ==
  Response(op, status, req, [detail |-> detail])

----------------------------------------------------------------------------
(* Flat-file store.  The files only ever hold what json.dump wrote, so    *)
(* the json.load failure branch of get_db and get_workouts_db is not taken *)

NoDbFile == [exists |-> FALSE, data |-> [users |-> <<>>]]

NoWoFile == [exists |-> FALSE, data |-> <<>>]

\* get_db(): the document it returns
get_db(file) == IF file.exists THEN file.data ELSE [users |-> <<>>]

\* get_db(): the file it leaves (an absent file is created with the default)
get_db_file(file) ==
  IF file.exists THEN file ELSE [exists |-> TRUE, data |-> [users |-> <<>>]]

\* save_db(data): the whole file is overwritten
save_db(data) == [exists |-> TRUE, data |-> data]

get_workouts_db(file) == IF file.exists THEN file.data ELSE <<>>

get_workouts_db_file(file) ==
  IF file.exists THEN file ELSE [exists |-> TRUE, data |-> <<>>]

\* mutant: the entries loaded from the file dropped from the list written back
append_entry_alone(data, entry) == <<entry>>

\* save_workout_entry: the list it writes back, given the list it loaded
append_entry(data, entry) == Append(data, entry)

save_workout_entry(file, entry) ==
  [exists |-> TRUE, data |-> append_entry(get_workouts_db(file), entry)]

\* the persisted collections as a reader sees them
Users == get_db(dbFile).users

Workouts == get_workouts_db(woFile)

----------------------------------------------------------------------------
(* Lookups *)

\* mutant: the duplicate check skipped for a request without email
email_taken_if_given(users, email) ==
  ~Falsy(email) /\ \E i \in DOMAIN users : users[i].email = email

\* any(u['email'] == user.email for u in db['users'])
email_taken(users, email) == \E i \in DOMAIN users : users[i].email = email

\* next((u for u in users if u['email'] == id or u['username'] == id), None);
\* the index of the user found, 0 for None
find_login(users, login_id) ==
  LET I == {i \in DOMAIN users :
              users[i].email = login_id \/ users[i].username = login_id}
  IN IF I = {} THEN 0 ELSE Min(I)

\* mutant: the password comparison dropped
credentials_found(users, i, password) == i # 0

\* found_user and found_user['password'] == user.password
credentials_ok(users, i, password) == i # 0 /\ users[i].password = password

\* next((u for u in users if u['user_id'] == user_id), None); 0 for None
find_by_id(users, user_id) ==
  LET I == {i \in DOMAIN users : users[i].user_id = user_id}
  IN IF I = {} THEN 0 ELSE Min(I)

\* mutant: the level written to every user instead of the one found
set_hydration_all(users, i, level) ==
  [j \in DOMAIN users |-> [users[j] EXCEPT !.stats.hydration = level]]

\* user['stats']['hydration'] = update.hydration, on the user found
set_hydration(users, i, level) ==
  [users EXCEPT ![i].stats.hydration = level]

\* int(user['stats']['steps'] * 0.05)
calories_of(steps) == (steps * 5) \div 100

\* the stats get_stats returns: steps and calories overwritten in memory
fresh_stats(stats, steps) ==
  [stats EXCEPT !.steps = steps, !.calories = calories_of(steps)]

----------------------------------------------------------------------------
(* Handlers run to completion: the file they leave and the response *)

UserAuth(username, password, email) ==
  [username |-> username, password |-> password, email |-> email]

\* mutant: the user appended and saved before the duplicate check
register_result_append_first(file, username, password, email, id) ==
  LET req == UserAuth(username, password, email)
      db  == get_db(file)
      appended == save_db([users |-> Append(db.users,
                              new_user(id, username, password, email))])
  IN IF Falsy(username)
       THEN [resp |-> HTTPException("register", 400, req,
                                    "Username is required for registration"),
             file |-> file]
     ELSE IF email_taken(db.users, email)
       THEN [resp |-> HTTPException("register", 400, req, "User already exists"),
             file |-> appended]
     ELSE [resp |-> Response("register", 200, req,
                             [status |-> "success", message |-> "Identity created"]),
           file |-> appended]

\* POST /api/v1/auth/register
register_result(file, username, password, email, id) ==
  LET req == UserAuth(username, password, email)
      db  == get_db(file)
  IN IF Falsy(username)
       THEN [resp |-> HTTPException("register", 400, req,
                                    "Username is required for registration"),
             file |-> file]
     ELSE IF email_taken(db.users, email)
       THEN [resp |-> HTTPException("register", 400, req, "User already exists"),
             file |-> get_db_file(file)]
     ELSE [resp |-> Response("register", 200, req,
                             [status |-> "success", message |-> "Identity created"]),
           file |-> save_db([users |-> Append(db.users,
                                 new_user(id, username, password, email))])]

\* POST /api/v1/auth/login
login_result(file, username, password, email) ==
  LET req      == UserAuth(username, password, email)
      db       == get_db(file)
      login_id == IF Falsy(email) THEN username ELSE email
      found    == find_login(db.users, login_id)
  IN IF Falsy(login_id)
       THEN [resp |-> HTTPException("login", 400, req, "Email or Username required"),
             file |-> get_db_file(file)]
     ELSE IF credentials_ok(db.users, found, password)
       THEN [resp |-> Response("login", 200, req,
                        [username |-> db.users[found].username,
                         user_id |-> db.users[found].user_id,
                         status |-> "success",
                         token |-> "demo-token-123"]),
             file |-> get_db_file(file)]
     ELSE [resp |-> HTTPException("login", 401, req, "Invalid credentials"),
           file |-> get_db_file(file)]

\* mutant: the randomized stats saved back with save_db(db)
get_stats_result_persist(file, user_id, steps) ==
  LET req == [user_id |-> user_id]
      db  == get_db(file)
      i   == find_by_id(db.users, user_id)
  IN IF i = 0
       THEN [resp |-> HTTPException("get_stats", 404, req, "User not found"),
             file |-> get_db_file(file)]
     ELSE [resp |-> Response("get_stats", 200, req,
                             fresh_stats(db.users[i].stats, steps)),
           file |-> save_db([users |->
                       [db.users EXCEPT ![i].stats = fresh_stats(@, steps)]])]

\* GET /api/v1/user/daily-stats
get_stats_result(file, user_id, steps) ==
  LET req == [user_id |-> user_id]
      db  == get_db(file)
      i   == find_by_id(db.users, user_id)
  IN IF i = 0
       THEN [resp |-> HTTPException("get_stats", 404, req, "User not found"),
             file |-> get_db_file(file)]
     ELSE [resp |-> Response("get_stats", 200, req,
                             fresh_stats(db.users[i].stats, steps)),
           file |-> get_db_file(file)]

\* PATCH /api/v1/user/hydrate
update_hydration_result(file, user_id, hydration) ==
  LET req == [hydration |-> hydration, user_id |-> user_id]
      db  == get_db(file)
      i   == find_by_id(db.users, user_id)
  IN IF i = 0
       THEN [resp |-> HTTPException("update_hydration", 404, req, "User not found"),
             file |-> get_db_file(file)]
     ELSE [resp |-> Response("update_hydration", 200, req,
                             [status |-> "updated", level |-> hydration]),
           file |-> save_db([users |-> set_hydration(db.users, i, hydration)])]

\* the entry save_workout builds from a WorkoutSession
workout_entry(workout, id) ==
  [id |-> id,
   user_id |-> workout.user_id,
   date |-> IF Falsy(workout.date) THEN NowIso ELSE workout.date,
   duration |-> workout.duration_seconds,
   exercises |-> workout.exercises]

\* POST /api/v1/workout/save
save_workout_result(file, workout, id) ==
  LET entry == workout_entry(workout, id)
  IN [resp |-> Response("save_workout", 200, workout,
                        [status |-> "success", workout_id |-> entry.id]),
      file |-> save_workout_entry(file, entry)]

----------------------------------------------------------------------------
(* Analytics *)

RECURSIVE sets_volume_completed(_)
\* mutant: only the completed sets counted
sets_volume_completed(sets) ==
  IF sets = <<>> THEN 0
  ELSE sets_volume_completed(SubSeq(sets, 1, Len(sets) - 1))
       + (IF sets[Len(sets)].completed
            THEN sets[Len(sets)].kg * sets[Len(sets)].reps ELSE 0)

RECURSIVE sets_volume(_)
\* for s in ex['sets']: total_volume += s['kg'] * s['reps']
sets_volume(sets) ==
  IF sets = <<>> THEN 0
  ELSE sets_volume(SubSeq(sets, 1, Len(sets) - 1))
       + sets[Len(sets)].kg * sets[Len(sets)].reps

RECURSIVE exercises_volume(_)
\* for ex in w['exercises']
exercises_volume(exercises) ==
  IF exercises = <<>> THEN 0
  ELSE exercises_volume(SubSeq(exercises, 1, Len(exercises) - 1))
       + sets_volume(exercises[Len(exercises)].sets)

RECURSIVE workouts_volume(_)
\* for w in user_workouts
workouts_volume(ws) ==
  IF ws = <<>> THEN 0
  ELSE workouts_volume(SubSeq(ws, 1, Len(ws) - 1))
       + exercises_volume(ws[Len(ws)].exercises)

\* [w for w in all_workouts if w.get('user_id') == user_id]
user_workouts_of(all_workouts, user_id) ==
  SelectSeq(all_workouts, LAMBDA w : w.user_id = user_id)

ChartBaseline == <<12000, 15000, 11000, 18000, 20000, 24000>>

ChartLabels == <<"Jan", "Feb", "Mar", "Apr", "May", "Jun", "Now">>

WorkoutsOffset == 42

VolumeOffset == 150000

VolumeUnit == 1000

Prs == 12

\* chart_data, with total_volume appended when it is > 0
chart_data(total_volume) ==
  IF total_volume > 0 THEN Append(ChartBaseline, total_volume) ELSE ChartBaseline

\* mutant: floor division (a // b) in place of int(a / b)
floor_div(a, b) == a \div b

\* int(a / b) for b > 0: Python's int() truncates toward zero
int_div(a, b) == IF a >= 0 THEN a \div b ELSE -((-a) \div b)

\* f"{int((total_volume + 150000)/1000)}k"
volume_label(total_volume) ==
  ToString(int_div(total_volume + VolumeOffset, VolumeUnit)) \o "k"

\* len(user_workouts) + 42
total_workouts_of(user_workouts) == Len(user_workouts) + WorkoutsOffset

\* GET /api/v1/analytics/history (the random heatmap is left out of the body)
get_history_result(file, user_id) ==
  LET all_workouts  == get_workouts_db(file)
      user_workouts == user_workouts_of(all_workouts, user_id)
      total_volume  == workouts_volume(user_workouts)
  IN [resp |-> Response("get_history", 200, [user_id |-> user_id],
                 [summary |-> [total_volume |-> volume_label(total_volume),
                               total_workouts |-> total_workouts_of(user_workouts),
                               avg_duration |-> "45m",
                               prs |-> Prs],
                  chart |-> [data |-> chart_data(total_volume),
                             labels |-> ChartLabels]]),
      file |-> get_workouts_db_file(file),
      total_volume |-> total_volume]

----------------------------------------------------------------------------
(* Actions: one completed request each *)

ConcVars == <<th, refDb, refWo, overlapped>>

register(username, password, email, id) ==
  LET r == register_result(dbFile, username, password, email, id)
  IN /\ dbFile' = r.file
     /\ resp' = r.resp
     /\ UNCHANGED <<woFile, lastLevel, ConcVars>>

login(username, password, email) ==
  LET r == login_result(dbFile, username, password, email)
  IN /\ dbFile' = r.file
     /\ resp' = r.resp
     /\ UNCHANGED <<woFile, lastLevel, ConcVars>>

get_stats(user_id, steps) ==
  LET r == get_stats_result(dbFile, user_id, steps)
  IN /\ dbFile' = r.file
     /\ resp' = r.resp
     /\ UNCHANGED <<woFile, lastLevel, ConcVars>>

update_hydration(user_id, hydration) ==
  LET r == update_hydration_result(dbFile, user_id, hydration)
  IN /\ dbFile' = r.file
     /\ resp' = r.resp
     /\ lastLevel' = IF r.resp.status = 200
                       THEN [lastLevel EXCEPT ![user_id] = {hydration}]
                       ELSE lastLevel
     /\ UNCHANGED <<woFile, ConcVars>>

save_workout(workout, id) ==
  LET r == save_workout_result(woFile, workout, id)
  IN /\ Len(Workouts) < MaxWorkouts
     /\ woFile' = r.file
     /\ resp' = r.resp
     /\ UNCHANGED <<dbFile, lastLevel, ConcVars>>

get_history(user_id) ==
  LET r == get_history_result(woFile, user_id)
  IN /\ woFile' = r.file
     /\ resp' = [r.resp EXCEPT !.req = [user_id |-> user_id,
                                        total_volume |-> r.total_volume]]
     /\ UNCHANGED <<dbFile, lastLevel, ConcVars>>

----------------------------------------------------------------------------
(* Inputs *)

Set(kg, reps, completed) == [completed |-> completed, kg |-> kg, reps |-> reps]

Exercise(name, sets) == [sets |-> sets, name |-> name]

WorkoutSession(user_id, duration_seconds, exercises, date) ==
  [user_id |-> user_id, date |-> date,
   duration_seconds |-> duration_seconds, exercises |-> exercises]

HeavySet == Set(40, 5, TRUE)

NegativeSet == Set(-500, 301, FALSE)

\* exercise lists a client may post: empty, an exercise without sets, negative numbers
ExerciseLists ==
  { <<>>,
    <<Exercise("Squat", <<>>)>>,
    <<Exercise("Squat", <<HeavySet>>)>>,
    <<Exercise("Deadlift", <<NegativeSet>>)>>,
    <<Exercise("Squat", <<HeavySet, NegativeSet>>), Exercise("Bench Press", <<HeavySet>>)>> }

Init ==
  /\ dbFile = NoDbFile
  /\ woFile = NoWoFile
  /\ resp = NoResp
  /\ lastLevel = [u \in UserIds |-> {}]
  /\ th = <<>>
  /\ refDb = NoDbFile
  /\ refWo = NoWoFile
  /\ overlapped = FALSE

\* every user-side handler, and save_workout with one payload
Next ==
  \/ \E u \in {NONE, "ann@x"}, p \in {"pw1"}, e \in {NONE, "ann@x"}, id \in UserIds :
       register(u, p, e, id)
  \/ \E u \in {NONE, "ann@x"}, p \in Passwords, e \in {NONE, "ann@x"} :
       login(u, p, e)
  \/ \E uid \in UserIds, steps \in StepsSamples : get_stats(uid, steps)
  \/ \E uid \in UserIds, level \in Levels : update_hydration(uid, level)
  \/ \E id \in WorkoutIds :
       save_workout(WorkoutSession("user_0000000a", 1800,
                                   <<Exercise("Squat", <<HeavySet>>)>>, NONE), id)

Spec == Init /\ [][Next]_vars

\* register and login over every sampled username, email and password
NextAuth ==
  \/ \E u \in Names \cup {NONE, ""}, p \in Passwords, e \in Names \cup {NONE},
        id \in UserIds :
       register(u, p, e, id)
  \/ \E u \in Names \cup {NONE}, p \in Passwords, e \in Names \cup {NONE, ""} :
       login(u, p, e)

SpecAuth == Init /\ [][NextAuth]_vars

\* save_workout over the payloads, and get_history
NextWo ==
  \/ \E uid \in UserIds, ex \in ExerciseLists, d \in {NONE, "2025-05-01"},
        id \in WorkoutIds :
       save_workout(WorkoutSession(uid, 1800, ex, d), id)
  \/ \E uid \in UserIds : get_history(uid)

SpecWo == Init /\ [][NextWo]_vars

----------------------------------------------------------------------------
(* Two requests served by two worker threads: each handler loads its file  *)
(* in one step and saves it in a later one, with no lock in between        *)

Threads == {1, 2}

IdleThread == [op |-> "none", status |-> 0, req |-> [x |-> 0], pc |-> "idle", local |-> <<>>]

Thread(pc, op, req, local, status) ==
  [op |-> op, status |-> status, req |-> req, pc |-> pc, local |-> local]

\* another thread holds a loaded copy of users.json it has yet to save
DbPending(t) == \E o \in Threads \ {t} : th[o].pc = "save_db"

WoPending(t) == \E o \in Threads \ {t} : th[o].pc = "save_wo"

\* register up to its save_db call: lines 89-113
c_register_load(t, username, password, email, id) ==
  LET req == [id |-> id, username |-> username, password |-> password, email |-> email]
      db  == get_db(dbFile)
  IN /\ th[t].pc = "idle"
     /\ IF Falsy(username)
          THEN /\ th' = [th EXCEPT ![t] = Thread("done", "register", req, <<>>, 400)]
               /\ UNCHANGED <<dbFile, refDb, overlapped>>
        ELSE IF email_taken(db.users, email)
          THEN /\ th' = [th EXCEPT ![t] = Thread("done", "register", req, <<>>, 400)]
               /\ dbFile' = get_db_file(dbFile)
               /\ refDb' = register_result(refDb, username, password, email, id).file
               /\ UNCHANGED overlapped
        ELSE /\ th' = [th EXCEPT ![t] =
                         Thread("save_db", "register", req,
                                [users |-> Append(db.users,
                                     new_user(id, username, password, email))], 0)]
             /\ dbFile' = get_db_file(dbFile)
             /\ overlapped' = (overlapped \/ DbPending(t))
             /\ UNCHANGED refDb
     /\ UNCHANGED <<woFile, refWo, resp, lastLevel>>

\* update_hydration up to its save_db call: lines 158-164
c_update_hydration_load(t, user_id, hydration) ==
  LET req == [hydration |-> hydration, user_id |-> user_id]
      db  == get_db(dbFile)
      i   == find_by_id(db.users, user_id)
  IN /\ th[t].pc = "idle"
     /\ dbFile' = get_db_file(dbFile)
     /\ IF i = 0
          THEN /\ th' = [th EXCEPT ![t] =
                           Thread("done", "update_hydration", req, <<>>, 404)]
               /\ refDb' = update_hydration_result(refDb, user_id, hydration).file
               /\ UNCHANGED overlapped
        ELSE /\ th' = [th EXCEPT ![t] =
                         Thread("save_db", "update_hydration", req,
                                [users |-> set_hydration(db.users, i, hydration)], 0)]
             /\ overlapped' = (overlapped \/ DbPending(t))
             /\ UNCHANGED refDb
     /\ UNCHANGED <<woFile, refWo, resp, lastLevel>>

\* save_db(db) and the return of register or update_hydration
c_save_db(t) ==
  /\ th[t].pc = "save_db"
  /\ dbFile' = save_db(th[t].local)
  /\ th' = [th EXCEPT ![t].pc = "done", ![t].status = 200]
  /\ refDb' = IF th[t].op = "register"
                THEN register_result(refDb, th[t].req.username, th[t].req.password,
                                     th[t].req.email, th[t].req.id).file
                ELSE update_hydration_result(refDb, th[t].req.user_id,
                                             th[t].req.hydration).file
  /\ UNCHANGED <<woFile, refWo, resp, lastLevel, overlapped>>

\* save_workout up to the open(WORKOUTS_FILE, "w") of save_workout_entry
c_save_workout_load(t, workout, id) ==
  LET entry == workout_entry(workout, id)
  IN /\ th[t].pc = "idle"
     /\ woFile' = get_workouts_db_file(woFile)
     /\ th' = [th EXCEPT ![t] =
                 Thread("save_wo", "save_workout", [id |-> id, workout |-> workout],
                        append_entry(get_workouts_db(woFile), entry), 0)]
     /\ overlapped' = (overlapped \/ WoPending(t))
     /\ UNCHANGED <<dbFile, refDb, refWo, resp, lastLevel>>

\* json.dump(data, f) of save_workout_entry and the return of save_workout
c_save_wo(t) ==
  /\ th[t].pc = "save_wo"
  /\ woFile' = [exists |-> TRUE, data |-> th[t].local]
  /\ th' = [th EXCEPT ![t].pc = "done", ![t].status = 200]
  /\ refWo' = save_workout_result(refWo, th[t].req.workout, th[t].req.id).file
  /\ UNCHANGED <<dbFile, refDb, resp, lastLevel, overlapped>>

Ann == new_user("user_0000000a", "ann@x", "pw1", "ann@x")

Bob == new_user("user_0000000b", "bob@x", "pw1", "bob@x")

\* users.json as earlier registrations left it
InitialStores ==
  { NoDbFile, save_db([users |-> <<Ann>>]), save_db([users |-> <<Ann, Bob>>]) }

InitConc ==
  /\ dbFile \in InitialStores
  /\ woFile = NoWoFile
  /\ resp = NoResp
  /\ lastLevel = [u \in UserIds |-> {}]
  /\ th = [t \in Threads |-> IdleThread]
  /\ refDb = dbFile
  /\ refWo = woFile
  /\ overlapped = FALSE

NextConc ==
  \E t \in Threads :
    \/ \E u \in {NONE, "bob@x"}, e \in Names, id \in UserIds :
         c_register_load(t, u, "pw1", e, id)
    \/ \E uid \in UserIds, level \in Levels : c_update_hydration_load(t, uid, level)
    \/ c_save_db(t)
    \/ \E id \in WorkoutIds :
         c_save_workout_load(t, WorkoutSession("user_0000000a", 1800,
                                  <<Exercise("Squat", <<HeavySet>>)>>, NONE), id)
    \/ c_save_wo(t)

SpecConc == InitConc /\ [][NextConc]_vars

----------------------------------------------------------------------------
(* Properties *)

IsError(r) == r.status \in {400, 401, 404}

UniqueEmails(users) ==
  \A i, j \in DOMAIN users : i # j => users[i].email # users[j].email

\* C1: no two stored users share an email, and a register whose email a
\* stored user already has answers 400 and leaves the collection as it was.
C1_EmailUnique ==
  [][ /\ UniqueEmails(Users')
      /\ (resp'.op = "register" /\ email_taken(Users, resp'.req.email))
           => (resp'.status = 400 /\ Users' = Users) ]_vars

\* C1 witness: a duplicate email refused while two users are stored
C1_Witness ==
  /\ resp.op = "register" /\ resp.status = 400
  /\ ~Falsy(resp.req.username)
  /\ Len(Users) = 2
  /\ email_taken(Users, resp.req.email)

\* C2: a login with the email and password of a registered user (non-empty
\* email) succeeds and returns that user's user_id.
C2_LoginAfterRegister ==
  (resp.op = "login" /\ ~Falsy(resp.req.email)) =>
    \A i \in DOMAIN Users :
      (Users[i].email = resp.req.email /\ Users[i].password = resp.req.password)
        => (resp.status = 200 /\ resp.body.user_id = Users[i].user_id)

LoginId(req) == IF Falsy(req.email) THEN req.username ELSE req.email

Matches(u, req) ==
  /\ (u.email = LoginId(req) \/ u.username = LoginId(req))
  /\ u.password = req.password

\* C3: a login with a non-empty identifier succeeds only with the user_id and
\* username of a stored user whose email or username is the identifier and
\* whose password is the one supplied; in every other case it answers 401.
C3_LoginOnlyWithPassword ==
  (resp.op = "login" /\ ~Falsy(LoginId(resp.req))) =>
    /\ resp.status \in {200, 401}
    /\ resp.status = 200 =>
         \E i \in DOMAIN Users :
           /\ Matches(Users[i], resp.req)
           /\ resp.body.user_id = Users[i].user_id
           /\ resp.body.username = Users[i].username
    /\ (\A i \in DOMAIN Users : ~Matches(Users[i], resp.req)) => resp.status = 401

\* C3 witness: the right identifier with the wrong password is refused
C3_Witness ==
  /\ resp.op = "login" /\ resp.status = 401
  /\ \E i \in DOMAIN Users :
       /\ Users[i].email = resp.req.email
       /\ Users[i].password # resp.req.password

\* C4: a request that ends in 400, 401 or 404 leaves the persisted user
\* collection and workout sequence exactly as they were.
C4_ErrorsChangeNothing ==
  [][ IsError(resp') => (Users' = Users /\ Workouts' = Workouts) ]_vars

\* C4 witness: a refused duplicate registration with users and workouts stored
C4_Witness ==
  /\ resp.op = "register" /\ resp.status = 400
  /\ ~Falsy(resp.req.username)
  /\ Len(Users) >= 1 /\ Len(Workouts) >= 1

\* the step set the hydration of the first user with user_id uid, and only that
HydrationFrame(before, after, uid, level) ==
  \E i \in DOMAIN before :
    /\ before[i].user_id = uid
    /\ \A j \in 1..(i - 1) : before[j].user_id # uid
    /\ DOMAIN after = DOMAIN before
    /\ \A j \in DOMAIN before :
         after[j] = IF j = i
                      THEN [username |-> before[i].username,
                            password |-> before[i].password,
                            email |-> before[i].email,
                            user_id |-> before[i].user_id,
                            stats |-> [steps |-> before[i].stats.steps,
                                       stepGoal |-> before[i].stats.stepGoal,
                                       calories |-> before[i].stats.calories,
                                       calGoal |-> before[i].stats.calGoal,
                                       hydration |-> level]]
                      ELSE before[j]

\* C5: a successful update_hydration sets the hydration of the user with that
\* user_id and nothing else in the collection, and a later get_daily_stats for
\* the user_id returns the level of its last successful update_hydration.
C5_HydrationPersists ==
  [][ /\ (resp'.op = "update_hydration" /\ resp'.status = 200)
           => HydrationFrame(Users, Users', resp'.req.user_id, resp'.req.hydration)
      /\ (resp'.op = "get_stats" /\ resp'.status = 200
            /\ lastLevel'[resp'.req.user_id] # {})
           => resp'.body.hydration \in lastLevel'[resp'.req.user_id] ]_vars

\* C5 witness: stats read back after an update, with a second user stored
C5_Witness ==
  /\ resp.op = "get_stats" /\ resp.status = 200
  /\ lastLevel[resp.req.user_id] = {3}
  /\ resp.body.hydration = 3
  /\ Len(Users) = 2
  /\ \E i \in DOMAIN Users : Users[i].stats.hydration = -1

RegistrationDefaults(users) ==
  \A i \in DOMAIN users :
    /\ users[i].stats.steps = 0
    /\ users[i].stats.calories = 0
    /\ users[i].stats.stepGoal = StepGoal
    /\ users[i].stats.calGoal = CalGoal

\* C6: get_daily_stats answers steps in 2000..12000 with calories =
\* floor(steps * 0.05) and persists nothing: the collection is the same before
\* and after, and every stored user keeps the registration defaults.
C6_StatsNotPersisted ==
  [][ /\ (resp'.op = "get_stats" /\ resp'.status = 200)
           => /\ Users' = Users
              /\ resp'.body.steps \in StepsLow..StepsHigh
              /\ resp'.body.calories * 100 <= resp'.body.steps * 5
              /\ resp'.body.steps * 5 < (resp'.body.calories + 1) * 100
      /\ RegistrationDefaults(Users') ]_vars

\* C6 witness: stats answered with floor(2019 * 0.05) = 100 calories
C6_Witness ==
  /\ resp.op = "get_stats" /\ resp.status = 200
  /\ resp.body.steps = 2019 /\ resp.body.calories = 100
  /\ Len(Users) >= 1

\* the index triples <<workout, exercise, set>> of the sets of user uid
SetsOf(ws, uid) ==
  UNION { UNION { { <<w, e, k>> : k \in DOMAIN ws[w].exercises[e].sets }
                  : e \in DOMAIN ws[w].exercises }
          : w \in {i \in DOMAIN ws : ws[i].user_id = uid} }

RECURSIVE SumKgReps(_, _)
SumKgReps(ws, T) ==
  IF T = {} THEN 0
  ELSE LET t == CHOOSE x \in T : TRUE
           s == ws[t[1]].exercises[t[2]].sets[t[3]]
       IN s.kg * s.reps + SumKgReps(ws, T \ {t})

\* sum of kg * reps over every set of every workout of user uid
VolumeOf(ws, uid) == SumKgReps(ws, SetsOf(ws, uid))

MatchedCount(ws, uid) == Cardinality({i \in DOMAIN ws : ws[i].user_id = uid})

\* C7: get_history computes total_volume as the sum of kg * reps over every
\* set, completed or not, of the stored workouts of that user_id and no other;
\* chart.data is the baseline plus total_volume exactly when total_volume > 0.
C7_TotalVolume ==
  resp.op = "get_history" =>
    /\ resp.req.total_volume = VolumeOf(Workouts, resp.req.user_id)
    /\ resp.body.chart.data =
         IF VolumeOf(Workouts, resp.req.user_id) > 0
           THEN ChartBaseline \o <<VolumeOf(Workouts, resp.req.user_id)>>
           ELSE ChartBaseline

\* C7 witness: a 7th chart point while another user's workout is stored
C7_Witness ==
  /\ resp.op = "get_history"
  /\ Len(resp.body.chart.data) = 7
  /\ Len(Workouts) = 2
  /\ \E i \in DOMAIN Workouts :
       /\ Workouts[i].user_id # resp.req.user_id
       /\ VolumeOf(Workouts, Workouts[i].user_id) # 0

\* C8 as stated: summary.total_volume is floor((total_volume + 150000) / 1000)
\* followed by "k", and total_workouts is the matched count plus 42.
C8_FloorLabel ==
  resp.op = "get_history" =>
    /\ resp.body.summary.total_volume =
         ToString((VolumeOf(Workouts, resp.req.user_id) + 150000) \div 1000) \o "k"
    /\ resp.body.summary.total_workouts = MatchedCount(Workouts, resp.req.user_id) + 42

\* n is x / 1000 with the fraction dropped (rounded toward zero)
TruncatedThousands(n, x) ==
  /\ x >= 0 => (n * 1000 <= x /\ x < (n + 1) * 1000)
  /\ x < 0 => ((n - 1) * 1000 < x /\ x <= n * 1000)

\* C8 amended: summary.total_volume is (total_volume + 150000) / 1000 rounded
\* toward zero, followed by "k"; total_workouts is the matched count plus 42.
C8_TruncatedLabel ==
  resp.op = "get_history" =>
    LET x == VolumeOf(Workouts, resp.req.user_id) + 150000
    IN /\ \E n \in {x \div 1000, (x \div 1000) + 1} :
            /\ TruncatedThousands(n, x)
            /\ resp.body.summary.total_volume = ToString(n) \o "k"
       /\ resp.body.summary.total_workouts
            = MatchedCount(Workouts, resp.req.user_id) + 42

\* C8 witness: a negative total below -150000 that is no multiple of 1000
C8_Witness ==
  /\ resp.op = "get_history"
  /\ resp.req.total_volume = -150100
  /\ resp.body.summary.total_volume = "0k"
  /\ resp.body.summary.total_workouts = 43

\* C9: no two stored users share a user_id and no two stored workouts share
\* an id.
C9_IdsUnique ==
  /\ \A i, j \in DOMAIN Users : i # j => Users[i].user_id # Users[j].user_id
  /\ \A i, j \in DOMAIN Workouts : i # j => Workouts[i].id # Workouts[j].id

AllDone == \A t \in Threads : th[t].pc = "done"

\* the effect of thread t's successful request is missing from its file
Lost(t) ==
  /\ th[t].status = 200
  /\ CASE th[t].op = "register" ->
            ~\E i \in DOMAIN Users :
               /\ Users[i].user_id = th[t].req.id
               /\ Users[i].username = th[t].req.username
               /\ Users[i].password = th[t].req.password
               /\ Users[i].email = th[t].req.email
       [] th[t].op = "save_workout" ->
            ~\E i \in DOMAIN Workouts :
               Workouts[i] = workout_entry(th[t].req.workout, th[t].req.id)
       [] th[t].op = "update_hydration" ->
            /\ \A o \in Threads \ {t} :
                 ~(th[o].op = "update_hydration" /\ th[o].req.user_id = th[t].req.user_id)
            /\ \A i \in DOMAIN Users :
                 (Users[i].user_id = th[t].req.user_id
                    /\ \A j \in 1..(i - 1) : Users[j].user_id # th[t].req.user_id)
                   => Users[i].stats.hydration # th[t].req.hydration
       [] OTHER -> FALSE

\* C10: two requests whose load-to-save spans did not overlap leave both
\* effects in the files (the files are what the two handlers run one after
\* the other produce); a lost update needs an overlap.
C10_SerialKeepsBoth ==
  (AllDone /\ ~overlapped) =>
    /\ dbFile = refDb
    /\ woFile = refWo
    /\ \A t \in Threads : ~Lost(t)

\* C10 witness: both requests answered success after overlapping, one effect
\* is missing from the file and the other (the last writer's) is there
C10_Witness ==
  /\ AllDone /\ overlapped
  /\ \A t \in Threads : th[t].status = 200
  /\ \E t \in Threads : Lost(t) /\ \A o \in Threads \ {t} : ~Lost(o)
====
